---- MODULE Spec2Model ----
(***************************************************************************)
(* Model of the production-data uploader (App.py): the key normalizer      *)
(* normalize_text, the header locator find_header_row, the extractor       *)
(* extract_production_data, the reconciliation engine process_and_match    *)
(* and the "Process & Update" pipeline that composes them.                 *)
(*                                                                         *)
(* Representation.  A Python str is a sequence of one-character strings,   *)
(* so "EW-1" is <<"E","W","-","1">>.  A non-ASCII character is named by    *)
(* its code point ("U+00E9").  A grid cell is a str or the missing marker  *)
(* NaN; Python's None in a cell position is None.  An optional table,      *)
(* list or set is <<>> (None) or <<v>>.  A missing row index is NoneIdx.   *)
(* Row and column indices are 0-based as in the source; iloc does the      *)
(* translation to TLA+'s 1-based sequences.                                *)
(***************************************************************************)
EXTENDS Integers, Sequences, FiniteSets, TLC

VARIABLES
    pc,                 \* position of the running call chain
    arg_text, ret_key,  \* normalize_text: argument and result
    arg_df, arg_terms, ret_idx,   \* find_header_row: arguments and result
    source_file, template_file,   \* the two uploads (decoded grid, or unreadable)
    source_df, error_msg,         \* extract_production_data's return pair
    found_cols,                   \* extract_production_data: found_col per field
    param_row_idx, date_col_idx,  \* process_and_match locals
    col_i, current_well_key, new_row, matched_wells, target_wells_debug,
    final_df, matched, wells_debug, match_err,  \* process_and_match's return tuple
    shown                         \* what the results stage has put on screen

vars == <<pc, arg_text, ret_key, arg_df, arg_terms, ret_idx, source_file,
          template_file, source_df, error_msg, found_cols, param_row_idx,
          date_col_idx, col_i, current_well_key, new_row, matched_wells,
          target_wells_debug, final_df, matched, wells_debug, match_err, shown>>

fnVars == <<arg_text, ret_key, arg_df, arg_terms, ret_idx>>

extractVars == <<source_df, error_msg, found_cols>>

matchVars == <<param_row_idx, date_col_idx, col_i, current_well_key, new_row,
               matched_wells, target_wells_debug, final_df, matched,
               wells_debug, match_err>>

-----------------------------------------------------------------------------
(* Python values *)

NaN == <<"NaN">>

None == <<"None">>

NoneIdx == -1

NoError == "None"

Some(v) == <<v>>

Nothing == <<>>

\* pd.isna / pd.notna on a scalar
isna(v) == v = NaN \/ v = None

notna(v) == ~isna(v)

\* str(v) of a cell: a missing value prints as "nan", None as "None"
str(v) == IF v = NaN THEN <<"n","a","n">> ELSE IF v = None THEN <<"N","o","n","e">> ELSE v

\* s.iloc[idx] with Python's negative indexing
iloc(s, idx) == IF idx < 0 THEN s[Len(s) + idx + 1] ELSE s[idx + 1]

-----------------------------------------------------------------------------
(* Characters and str methods *)

UpperChars == <<"A","B","C","D","E","F","G","H","I","J","K","L","M","N","O","P",
                "Q","R","S","T","U","V","W","X","Y","Z","U+00C9">>

LowerChars == <<"a","b","c","d","e","f","g","h","i","j","k","l","m","n","o","p",
                "q","r","s","t","u","v","w","x","y","z","U+00E9">>

Digits == {"0","1","2","3","4","5","6","7","8","9"}

Range(s) == {s[n] : n \in 1..Len(s)}

AlnumChars == Range(UpperChars) \cup Range(LowerChars) \cup Digits

\* str.isalnum for one character: letters and digits of any script
isalnum(c) == c \in AlnumChars

\* the regex class \w on a str pattern: Unicode alphanumerics and "_"
IsWordChar(c) == isalnum(c) \/ c = "_"

isspace(c) == c \in {" ", "\t"}

LowerOf ==
    [c \in Range(UpperChars) |->
        LowerChars[CHOOSE n \in 1..Len(UpperChars) : UpperChars[n] = c]]

lowerChar(c) == IF c \in DOMAIN LowerOf THEN LowerOf[c] ELSE c

\* str.lower
lower(s) == [n \in 1..Len(s) |-> lowerChar(s[n])]

RECURSIVE lstrip(_)
lstrip(s) == IF s # <<>> /\ isspace(Head(s)) THEN lstrip(Tail(s)) ELSE s

RECURSIVE rstrip(_)
rstrip(s) ==
    IF s # <<>> /\ isspace(s[Len(s)]) THEN rstrip(SubSeq(s, 1, Len(s) - 1)) ELSE s

\* str.strip
strip(s) == rstrip(lstrip(s))

\* "sub in s" / str.contains(sub, regex=False)
contains(s, sub) ==
    \E n \in 0..(Len(s) - Len(sub)) : \A m \in 1..Len(sub) : s[n + m] = sub[m]

-----------------------------------------------------------------------------
(* normalize_text, App.py:55-61 *)

\* the character class [\W_] of the pattern
MutMatchesClassNoUnderscore(c) == ~IsWordChar(c)

MatchesClass(c) == ~IsWordChar(c) \/ c = "_"

\* re.sub(r'[\W_]+', '', s): every maximal run of class characters is deleted
RECURSIVE SkipRun(_)
SkipRun(s) == IF s # <<>> /\ MatchesClass(Head(s)) THEN SkipRun(Tail(s)) ELSE s

RECURSIVE re_sub(_)
re_sub(s) ==
    IF s = <<>> THEN <<>>
    ELSE IF MatchesClass(Head(s)) THEN re_sub(SkipRun(s))
    ELSE <<Head(s)>> \o re_sub(Tail(s))

normalize_text(text) ==
    IF isna(text) \/ text = <<>> THEN <<>>
    ELSE re_sub(lower(str(text)))

-----------------------------------------------------------------------------
(* find_header_row, App.py:63-76 *)

\* df.iloc[:20]
ScanWindow == 20

\* the "max_matches >= 2" threshold of the return
MinMatches == 2

\* df.astype(str).apply(lambda x: x.str.lower()), one row of it
row_str(row) == [n \in 1..Len(row) |-> lower(str(row[n]))]

\* row.str.contains(term, regex=False).any()
row_contains(row, term) == \E n \in 1..Len(row) : contains(row[n], term)

\* sum(1 for term in key_terms if row.str.contains(term, regex=False).any())
row_matches(row, key_terms) ==
    LET lowered == row_str(row)
    IN  Cardinality({n \in 1..Len(key_terms) : row_contains(lowered, key_terms[n])})

MutBetterTiesLatest(matches, max_matches) == matches >= max_matches /\ matches > 0

\* "if matches > max_matches"
Better(matches, max_matches) == matches > max_matches

\* the for loop from row idx on, with the loop's two running variables
RECURSIVE scan_rows(_, _, _, _, _)
scan_rows(df, key_terms, idx, best_idx, max_matches) ==
    IF idx >= Len(df) \/ idx >= ScanWindow
    THEN IF max_matches >= MinMatches THEN best_idx ELSE NoneIdx
    ELSE LET matches == row_matches(iloc(df, idx), key_terms)
         IN  IF Better(matches, max_matches)
             THEN scan_rows(df, key_terms, idx + 1, idx, matches)
             ELSE scan_rows(df, key_terms, idx + 1, best_idx, max_matches)

find_header_row(df, key_terms) == scan_rows(df, key_terms, 0, NoneIdx, 0)

\* param_keywords, App.py:156
param_keywords == <<<<"w","h","f","p">>, <<"g","a","s"," ","r","a","t","e">>, <<"c","h","o","k","e">>, <<"f","l","p">>, <<"c","o","n","d","e","n","s","a","t","e">>>>

-----------------------------------------------------------------------------
(* extract_production_data, App.py:78-143 *)

\* target_columns, App.py:88-98: the fields in declaration order
FieldOrder == <<"well_name", "whfp", "choke", "flp", "prod_time", "gas",
                "condensate", "water", "salinity">>

target_columns ==
    [well_name  |-> <<<<"w","e","l","l"," ","n","o">>, <<"w","e","l","l"," ","n","a","m","e">>, <<"w","e","l","l">>, <<"n","a","m","e">>>>,
     whfp       |-> <<<<"w","h","f","p">>, <<"t","u","b","i","n","g"," ","p","r","e","s","s","u","r","e">>, <<"w","h","p">>, <<"t","h","p">>>>,
     choke      |-> <<<<"c","h","o","k","e">>, <<"/","6","4">>, <<"b","e","a","n">>>>,
     flp        |-> <<<<"f","l","p">>, <<"f","l","o","w","l","i","n","e">>, <<"l","i","n","e"," ","p","r","e","s","s">>>>,
     prod_time  |-> <<<<"p","r","o","d","."," ","t","i","m","e">>, <<"h","o","u","r","s">>, <<"o","n"," ","s","t","r","e","a","m">>, <<"r","u","n","t","i","m","e">>,
                      <<"d","u","r","a","t","i","o","n">>, <<"t","i","m","e">>>>,
     gas        |-> <<<<"r","a","w"," ","g","a","s">>, <<"g","a","s"," ","r","a","t","e">>, <<"m","m","s","c","f","d">>, <<"g","a","s">>>>,
     condensate |-> <<<<"r","a","w"," ","c","o","n","d">>, <<"c","o","n","d","e","n","s","a","t","e">>, <<"b","b","l","/","d">>, <<"c","o","n","d">>, <<"o","i","l">>>>,
     water      |-> <<<<"r","a","w"," ","w","a","t","e","r">>, <<"w","a","t","e","r"," ","r","a","t","e">>, <<"w","c">>, <<"w","a","t","e","r">>>>,
     salinity   |-> <<<<"s","a","l","i","n","i","t","y">>, <<"p","p","m">>, <<"s","a","l","t">>>>]

Fields == Range(FieldOrder)

RECURSIVE FlattenFrom(_)
FlattenFrom(n) ==
    IF n > Len(FieldOrder) THEN <<>>
    ELSE target_columns[FieldOrder[n]] \o FlattenFrom(n + 1)

\* all_terms = [t for sub in target_columns.values() for t in sub]
all_terms == FlattenFrom(1)

\* the second-row indicators of a two-row header, App.py:110
multi_row_terms == <<<<"g","a","s">>, <<"b","b","l">>, <<"t","i","m","e">>, <<"w","a","t","e","r">>>>

\* Series.str.cat(): the cells joined with no separator
RECURSIVE str_cat(_)
str_cat(row) == IF row = <<>> THEN <<>> ELSE Head(row) \o str_cat(Tail(row))

\* "Error reading file: ..." / "Could not detect a valid header row. ..."
ErrReadSource == "Error reading file"

ErrNoHeader == "Could not detect a valid header row. Check file format."

\* App.py:107-111
is_multi_row(df_raw, header_idx) ==
    /\ header_idx + 1 < Len(df_raw)
    /\ LET row2_str == str_cat(row_str(iloc(df_raw, header_idx + 1)))
       IN  \E n \in 1..Len(multi_row_terms) : contains(row2_str, multi_row_terms[n])

\* Series.astype(str).replace('nan', ''): a cell that is exactly 'nan' becomes ''
str_blank_nan(v) == IF str(v) = <<"n","a","n">> THEN <<>> ELSE str(v)

\* df_raw.columns, App.py:113-120
column_names(df_raw, header_idx) ==
    LET r1 == iloc(df_raw, header_idx)
    IN  IF is_multi_row(df_raw, header_idx)
        THEN LET r2 == iloc(df_raw, header_idx + 1)
             IN  [n \in 1..Len(r1) |->
                    lower(strip(str_blank_nan(r1[n]) \o <<" ">> \o str_blank_nan(r2[n])))]
        ELSE [n \in 1..Len(r1) |-> lower(strip(str(r1[n])))]

\* df_data, App.py:117 and 120
data_rows(df_raw, header_idx) ==
    LET first == IF is_multi_row(df_raw, header_idx)
                 THEN header_idx + 2 ELSE header_idx + 1
    IN  SubSeq(df_raw, first + 1, Len(df_raw))

\* "any(syn in col for syn in synonyms)"
col_matches(col, synonyms) == \E n \in 1..Len(synonyms) : contains(col, synonyms[n])

\* the inner loop of App.py:124-128: the first column, in original order, whose
\* name contains a synonym (its 0-based position), or NoneIdx
find_col(columns, synonyms) ==
    IF \E n \in 1..Len(columns) : col_matches(columns[n], synonyms)
    THEN (CHOOSE n \in 1..Len(columns) :
              /\ col_matches(columns[n], synonyms)
              /\ \A m \in 1..(n - 1) : ~col_matches(columns[m], synonyms)) - 1
    ELSE NoneIdx

\* found_col of every field, App.py:123-128
bind_columns(columns) ==
    [k \in Fields |-> find_col(columns, target_columns[k])]

\* one row of pd.DataFrame(extracted_data), App.py:130-138
extracted_row(row, found) ==
    [k \in Fields |-> IF found[k] = NoneIdx THEN None ELSE iloc(row, found[k])]

\* dropna(subset=['well_name']) and the 'well' filter, App.py:139-140
keep_row(rec) ==
    /\ notna(rec["well_name"])
    /\ ~contains(lower(str(rec["well_name"])), <<"w","e","l","l">>)

\* final_df['well_key'] = final_df['well_name'].apply(normalize_text)
with_key(rec) ==
    [k \in Fields \cup {"well_key"} |->
        IF k = "well_key" THEN normalize_text(rec["well_name"]) ELSE rec[k]]

RECURSIVE build_table(_, _)
build_table(rows, found) ==
    IF rows = <<>> THEN <<>>
    ELSE LET rec == extracted_row(Head(rows), found)
         IN  IF keep_row(rec)
             THEN <<with_key(rec)>> \o build_table(Tail(rows), found)
             ELSE build_table(Tail(rows), found)

NoFound == [k \in Fields |-> NoneIdx]

\* the whole function: the returned pair, and found_col per field
extract_production_data(file) ==
    IF file = Nothing
    THEN [source_df |-> Nothing, error_msg |-> ErrReadSource, found_cols |-> NoFound]
    ELSE LET df_raw == file[1]
             header_idx == find_header_row(df_raw, all_terms)
         IN  IF header_idx = NoneIdx
             THEN [source_df |-> Nothing, error_msg |-> ErrNoHeader, found_cols |-> NoFound]
             ELSE LET found == bind_columns(column_names(df_raw, header_idx))
                  IN  [source_df |-> Some(build_table(data_rows(df_raw, header_idx), found)),
                       error_msg |-> NoError,
                       found_cols |-> found]

-----------------------------------------------------------------------------
(* process_and_match, App.py:145-220 *)

ErrReadMaster == "Error reading Master Sheet"

ErrNoParamRow == "Could not find parameter row (WHFP, Gas Rate) in Master Sheet."

ErrNoWellRow == "Found parameters on Row 1, but expected Well Names above it."

\* the report date picked in the date input, App.py:253
report_date == <<"2","0","2","5","-","1","1","-","0","4">>

NoField == "None"

MutWellRowAlwaysThere(well_row_idx) == FALSE

\* "if well_row_idx < 0", App.py:163
WellRowMissing(well_row_idx) == well_row_idx < 0

\* len(df_tmpl.columns)
ncols(df_tmpl) == Len(df_tmpl[1])

\* App.py:173-177: the first column whose parameter cell contains "date", else 0
find_date_col(param_row) ==
    IF \E n \in 1..Len(param_row) : contains(lower(str(param_row[n])), <<"d","a","t","e">>)
    THEN (CHOOSE n \in 1..Len(param_row) :
              /\ contains(lower(str(param_row[n])), <<"d","a","t","e">>)
              /\ \A m \in 1..(n - 1) : ~contains(lower(str(param_row[m])), <<"d","a","t","e">>)) - 1
    ELSE 0

\* "if val and val.lower() != 'nan' and val.strip() != ''", App.py:189
has_label(val) == val # <<>> /\ lower(val) # <<"n","a","n">> /\ strip(val) # <<>>

MutNoActiveWellOnlyNone(well_key) == well_key = None

\* "if not current_well_key", App.py:193
NoActiveWell(well_key) == well_key = None \/ well_key = <<>>

\* the if/elif chain of App.py:199-207
resolve_field(param_key) ==
    IF contains(param_key, <<"w","h","f","p">>) THEN "whfp"
    ELSE IF contains(param_key, <<"c","h","o","k","e">>) THEN "choke"
    ELSE IF contains(param_key, <<"f","l","p">>) THEN "flp"
    ELSE IF contains(param_key, <<"g","a","s">>) THEN "gas"
    ELSE IF contains(param_key, <<"c","o","n","d">>) THEN "condensate"
    ELSE IF contains(param_key, <<"w","a","t","e","r">>) THEN "water"
    ELSE IF \/ contains(param_key, <<"t","i","m","e">>)
            \/ contains(param_key, <<"h","o","u","r","s">>)
            \/ contains(param_key, <<"d","u","r","a","t","i","o","n">>) THEN "prod_time"
    ELSE IF contains(param_key, <<"s","a","l","i","n">>) THEN "salinity"
    ELSE NoField

\* source_df[source_df['well_key'] == current_well_key]
select_key(table, well_key) == SelectSeq(table, LAMBDA rec : rec["well_key"] = well_key)

MutLastMatch(match) == match[Len(match)]

\* match.iloc[0]
first_match(match) == iloc(match, 0)

\* App.py:209-215: the value to write at a column, or None to leave it empty
lookup(table, well_key, source_col) ==
    IF source_col = NoField THEN None
    ELSE LET match == select_key(table, well_key)
         IN  IF match = <<>> THEN None
             ELSE LET val == first_match(match)[source_col]
                  IN  IF notna(val) THEN val ELSE None

MutConcatRowFirst(df_tmpl, row) == <<row>> \o df_tmpl

\* pd.concat([df_tmpl, new_row_df], ignore_index=True), App.py:217-218
concat_row(df_tmpl, row) == Append(df_tmpl, row)

-----------------------------------------------------------------------------
(* Bounds and input sets *)

MaxLabelLen == 3

LabelAlphabet == {"e", "W", "1", "-", " ", "_", "U+00C9", "U+00E9"}

RECURSIVE StringsUpTo(_, _)
StringsUpTo(A, n) ==
    IF n = 0 THEN {<<>>}
    ELSE LET shorter == StringsUpTo(A, n - 1)
         IN  shorter \cup {Append(s, c) : s \in {t \in shorter : Len(t) = n - 1}, c \in A}

Labels == StringsUpTo(LabelAlphabet, MaxLabelLen) \cup {NaN, None}

-----------------------------------------------------------------------------
(* Initial values of the variables a specification does not use *)

FnIdle ==
    /\ arg_text = <<>> /\ ret_key = <<>>
    /\ arg_df = <<>> /\ arg_terms = <<>> /\ ret_idx = NoneIdx

ExtractIdle ==
    /\ source_df = Nothing /\ error_msg = NoError /\ found_cols = NoFound

MatchIdle ==
    /\ param_row_idx = NoneIdx /\ date_col_idx = 0 /\ col_i = 0
    /\ current_well_key = None /\ new_row = <<>> /\ matched_wells = {}
    /\ target_wells_debug = <<>> /\ final_df = Nothing /\ matched = Nothing
    /\ wells_debug = Nothing /\ match_err = NoError

PipelineIdle ==
    /\ source_file = <<>> /\ template_file = <<>> /\ shown = {}
    /\ ExtractIdle /\ MatchIdle

-----------------------------------------------------------------------------
(* Specification of normalize_text alone *)

InitNormalize ==
    /\ pc = "call"
    /\ arg_text \in Labels
    /\ ret_key = <<>>
    /\ arg_df = <<>> /\ arg_terms = <<>> /\ ret_idx = NoneIdx
    /\ PipelineIdle

NormalizeCall ==
    /\ pc = "call"
    /\ ret_key' = normalize_text(arg_text)
    /\ pc' = "ret"
    /\ UNCHANGED <<arg_text, arg_df, arg_terms, ret_idx, source_file,
                   template_file, shown, extractVars, matchVars>>

SpecNormalize == InitNormalize /\ [][NormalizeCall]_vars

-----------------------------------------------------------------------------
(* Specification of find_header_row alone *)

\* grids of up to MaxRows rows: filler rows everywhere but at one or two
\* chosen places, which hold rows that score 1, 2 or 3 vocabulary terms
MaxRows == 22

FillerRow == <<NaN, <<"E","W","-","1">>>>

ScoredRows ==
    { <<<<"W","H","F","P">>, NaN>>,
      <<<<"w","h","f","p"," ","(","p","s","i",")">>, <<"W","H","F","P">>>>,
      <<<<"W","H","F","P">>, <<"C","h","o","k","e">>>>,
      <<<<"G","a","s"," ","R","a","t","e">>, <<"F","L","P">>>>,
      <<<<"C","h","o","k","e"," ","/"," ","F","L","P">>, <<"C","o","n","d","e","n","s","a","t","e">>>> }

GridWith(n, places) ==
    [r \in 1..n |-> IF \E p \in places : p[1] = r
                    THEN (CHOOSE p \in places : p[1] = r)[2]
                    ELSE FillerRow]

LocateGrids ==
    {GridWith(n, {}) : n \in 0..MaxRows}
    \cup {GridWith(n, {<<p1, r1>>}) :
            n \in 1..MaxRows, p1 \in 1..MaxRows, r1 \in ScoredRows}
    \cup {GridWith(n, {<<p1, r1>>, <<p2, r2>>}) :
            n \in 1..MaxRows, p1 \in 1..MaxRows, r1 \in ScoredRows,
            p2 \in {1, 2, ScanWindow, MaxRows}, r2 \in ScoredRows}

InitLocate ==
    /\ pc = "call"
    /\ arg_df \in LocateGrids
    /\ arg_terms = param_keywords
    /\ ret_idx = NoneIdx
    /\ arg_text = <<>> /\ ret_key = <<>>
    /\ PipelineIdle

LocateCall ==
    /\ pc = "call"
    /\ ret_idx' = find_header_row(arg_df, arg_terms)
    /\ pc' = "ret"
    /\ UNCHANGED <<arg_text, ret_key, arg_df, arg_terms, source_file,
                   template_file, shown, extractVars, matchVars>>

SpecLocate == InitLocate /\ [][LocateCall]_vars

-----------------------------------------------------------------------------
(* C3 *)

\* number of distinct vocabulary terms found in some lowercased cell of row r
TermScore(r) ==
    Cardinality({t \in Range(arg_terms) :
                   \E n \in 1..Len(arg_df[r]) : contains(lower(str(arg_df[r][n])), t)})

\* the rows find_header_row may look at: the first 20 (1-based here)
FirstRows == 1..(IF Len(arg_df) < 20 THEN Len(arg_df) ELSE 20)

\* C3: the result is the earliest of the first 20 rows that attains the
\* maximum score, when that maximum is at least 2, and not-found otherwise.
C3_EarliestBestOfFirst20 ==
    pc = "ret" =>
        LET score == [r \in FirstRows |-> TermScore(r)]
        IN  IF \E r \in FirstRows : score[r] >= 2
            THEN /\ ret_idx + 1 \in FirstRows
                 /\ \A r \in FirstRows : score[r] <= score[ret_idx + 1]
                 /\ \A r \in FirstRows : r < ret_idx + 1 => score[r] < score[ret_idx + 1]
            ELSE ret_idx = NoneIdx

\* in a grid of more than 20 rows, rows 1 and 19 (0-based) tie at the best
\* score with different cells, and the earlier one was returned
C3_Witness ==
    /\ pc = "ret"
    /\ Len(arg_df) > 20
    /\ ret_idx = 1
    /\ TermScore(2) = 2 /\ TermScore(20) = 2
    /\ arg_df[2] # arg_df[20]

-----------------------------------------------------------------------------
(* Specification of extract_production_data alone *)

\* daily reports: an optional title row, a three-column header row, an
\* optional second header row, and up to MaxDataRows data rows
MaxDataRows == 2

TitleRow == <<<<"D","a","i","l","y"," ","R","e","p","o","r","t">>, NaN, NaN>>

HeaderCells == {<<"W","e","l","l"," ","N","a","m","e">>, <<"W","H","F","P">>, <<"G","a","s"," ","R","a","t","e">>, <<"W","a","t","e","r"," ","S","a","l","i","n","i","t","y"," ","(","p","p","m",")">>, NaN}

SecondHeaderRow == <<NaN, <<"(","p","s","i",")">>, <<"b","b","l","/","d">>>>

DataRows == { <<<<"E","W","-","1">>, <<"1","0">>, <<"5">>>>,
              <<<<"e","w"," ","1">>, NaN, <<"7">>>>,
              <<NaN, <<"3">>, <<"4">>>>,
              <<<<"W","e","l","l"," ","t","o","t","a","l">>, <<"1","3">>, <<"1","6">>>> }

RECURSIVE SeqsUpTo(_, _)
SeqsUpTo(A, n) ==
    IF n = 0 THEN {<<>>}
    ELSE LET shorter == SeqsUpTo(A, n - 1)
         IN  shorter \cup {Append(q, a) : q \in {t \in shorter : Len(t) = n - 1}, a \in A}

ExtractFiles ==
    {Nothing} \cup
    {Some(title \o <<<<h1, h2, h3>>>> \o second \o rows) :
        title \in {<<>>, <<TitleRow>>},
        h1 \in HeaderCells, h2 \in HeaderCells, h3 \in HeaderCells,
        second \in {<<>>, <<SecondHeaderRow>>},
        rows \in SeqsUpTo(DataRows, MaxDataRows)}

InitExtract ==
    /\ pc = "call"
    /\ source_file \in ExtractFiles
    /\ template_file = <<>> /\ shown = {}
    /\ FnIdle /\ ExtractIdle /\ MatchIdle

ExtractCall ==
    /\ pc = "call"
    /\ \E r \in {extract_production_data(source_file)} :
           /\ source_df' = r.source_df
           /\ error_msg' = r.error_msg
           /\ found_cols' = r.found_cols
    /\ pc' = "ret"
    /\ UNCHANGED <<fnVars, source_file, template_file, shown, matchVars>>

SpecExtract == InitExtract /\ [][ExtractCall]_vars

-----------------------------------------------------------------------------
(* The "Process & Update History" pipeline, App.py:277-348 *)

\* daily reports for the pipeline: unreadable, without a header row, with a
\* header row and no record left after filtering, and with records: two
\* spellings of one well (in either order, one lacking its WHFP) and a label
\* of punctuation only
SourceHeader == <<<<"W","e","l","l"," ","N","a","m","e">>, <<"W","H","F","P">>, <<"G","a","s"," ","R","a","t","e">>>>

RowEW1 == <<<<"E","W","-","1">>, NaN, <<"5">>>>

Rowew1 == <<<<"e","w"," ","1">>, <<"1","0">>, <<"7">>>>

RowDashes == <<<<"-","-">>, <<"8">>, <<"9">>>>

RowTotal == <<<<"W","e","l","l"," ","t","o","t","a","l">>, <<"1","8">>, <<"2","1">>>>

SourceFiles ==
    { Nothing,
      Some(<<TitleRow>>),
      Some(<<SourceHeader>>),
      Some(<<SourceHeader, RowTotal>>),
      Some(<<SourceHeader, RowDashes>>),
      Some(<<TitleRow, SourceHeader, Rowew1, RowEW1, RowTotal>>),
      Some(<<SourceHeader, RowEW1, Rowew1, RowDashes>>) }

\* master sheets: up to MaxCols columns, each a well-name cell over a
\* parameter cell, laid out with the well-name row first, under a title row,
\* or with no well-name row at all; one row of history below
MaxCols == 3

WellCells == {NaN, <<"E","W","-","1">>, <<"-","-">>}

ParamCells == {<<"D","a","t","e">>, <<"W","H","F","P">>, <<"G","a","s"," ","R","a","t","e">>, <<"R","e","m","a","r","k","s">>}

ColumnSeqs == SeqsUpTo(WellCells \X ParamCells, MaxCols) \ {<<>>}

WellRowOf(cols) == [n \in 1..Len(cols) |-> cols[n][1]]

ParamRowOf(cols) == [n \in 1..Len(cols) |-> cols[n][2]]

TitleRowOf(cols) == [n \in 1..Len(cols) |-> IF n = 1 THEN <<"F","i","e","l","d"," ","A">> ELSE NaN]

HistoryRowOf(cols) == [n \in 1..Len(cols) |-> <<"7">>]

TemplateFiles ==
    {Nothing}
    \cup {Some(<<WellRowOf(c), ParamRowOf(c), HistoryRowOf(c)>>) : c \in ColumnSeqs}
    \cup {Some(<<TitleRowOf(c), WellRowOf(c), ParamRowOf(c), HistoryRowOf(c)>>) :
            c \in ColumnSeqs}
    \cup {Some(<<ParamRowOf(c), HistoryRowOf(c)>>) : c \in ColumnSeqs}

MutExtractionNeverStops(err) == FALSE

\* "if error_msg: ... st.stop()", App.py:286-289
ExtractionFailed(err) == err # NoError

\* "if match_err: ... st.stop()", App.py:297-300
MatchFailed(err) == err # NoError

\* PHASE 1, App.py:282-291
PhaseExtraction ==
    /\ pc = "start"
    /\ \E file \in SourceFiles : \E r \in {extract_production_data(file)} :
           /\ source_file' = file
           /\ source_df' = r.source_df
           /\ error_msg' = r.error_msg
           /\ found_cols' = r.found_cols
           /\ IF ExtractionFailed(r.error_msg)
              THEN pc' = "stopped" /\ shown' = shown \cup {"extraction_error"}
              ELSE pc' = "matching" /\ shown' = shown \cup {"wells_found"}
    /\ UNCHANGED <<fnVars, template_file, matchVars>>

\* process_and_match up to the column walk, App.py:147-182
MatchLocate ==
    /\ pc = "matching"
    /\ \E file \in TemplateFiles :
        /\ template_file' = file
        /\ IF file = Nothing
           THEN /\ match_err' = ErrReadMaster
                /\ pc' = "match_ret"
                /\ UNCHANGED <<param_row_idx, date_col_idx, new_row>>
           ELSE \E idx \in {find_header_row(file[1], param_keywords)} :
                /\ param_row_idx' = idx
                /\ IF idx = NoneIdx
                   THEN /\ match_err' = ErrNoParamRow
                        /\ pc' = "match_ret"
                        /\ UNCHANGED <<date_col_idx, new_row>>
                   ELSE IF WellRowMissing(idx - 1)
                   THEN /\ match_err' = ErrNoWellRow
                        /\ pc' = "match_ret"
                        /\ UNCHANGED <<date_col_idx, new_row>>
                   ELSE \E date_col \in {find_date_col(iloc(file[1], idx))} :
                        /\ date_col_idx' = date_col
                        /\ new_row' = [n \in 1..ncols(file[1]) |->
                                         IF n = date_col + 1 THEN report_date ELSE None]
                        /\ pc' = "walk"
                        /\ UNCHANGED match_err
    /\ col_i' = 0
    /\ current_well_key' = None
    /\ matched_wells' = {}
    /\ target_wells_debug' = <<>>
    /\ UNCHANGED <<fnVars, source_file, extractVars, shown, final_df, matched,
                   wells_debug>>

\* one iteration of the "Map Data" loop, App.py:185-215
WalkColumn ==
    /\ pc = "walk"
    /\ col_i < ncols(template_file[1])
    /\ col_i' = col_i + 1
    /\ IF col_i = date_col_idx
       THEN UNCHANGED <<current_well_key, target_wells_debug, new_row, matched_wells>>
       ELSE LET df_tmpl == template_file[1]
                val == str(iloc(iloc(df_tmpl, param_row_idx - 1), col_i))
                well_key == IF has_label(val) THEN normalize_text(val)
                            ELSE current_well_key
            IN  /\ current_well_key' = well_key
                /\ target_wells_debug' =
                       IF has_label(val)
                       THEN Append(target_wells_debug, <<val, well_key>>)
                       ELSE target_wells_debug
                /\ IF NoActiveWell(well_key)
                   THEN UNCHANGED <<new_row, matched_wells>>
                   ELSE LET param_val == str(iloc(iloc(df_tmpl, param_row_idx), col_i))
                            source_col == resolve_field(normalize_text(param_val))
                            found == lookup(source_df[1], well_key, source_col)
                        IN  IF found = None
                            THEN UNCHANGED <<new_row, matched_wells>>
                            ELSE /\ new_row' = [new_row EXCEPT ![col_i + 1] = found]
                                 /\ matched_wells' = matched_wells \cup {well_key}
    /\ UNCHANGED <<pc, fnVars, source_file, template_file, extractVars, shown,
                   param_row_idx, date_col_idx, final_df, matched, wells_debug,
                   match_err>>

\* the end of the loop and the return, App.py:217-220
MatchReturn ==
    /\ pc = "walk"
    /\ col_i = ncols(template_file[1])
    /\ final_df' = Some(concat_row(template_file[1], new_row))
    /\ matched' = Some(matched_wells)
    /\ wells_debug' = Some(target_wells_debug)
    /\ match_err' = NoError
    /\ pc' = "match_ret"
    /\ UNCHANGED <<fnVars, source_file, template_file, extractVars, shown,
                   param_row_idx, date_col_idx, col_i, current_well_key, new_row,
                   matched_wells, target_wells_debug>>

\* back in the handler, App.py:295-302
AfterMatch ==
    /\ pc = "match_ret"
    /\ IF MatchFailed(match_err)
       THEN pc' = "stopped" /\ shown' = shown \cup {"matching_error"}
       ELSE pc' = "results" /\ shown' = shown \cup {"complete"}
    /\ UNCHANGED <<fnVars, source_file, template_file, extractVars, matchVars>>

\* RESULTS DISPLAY, App.py:304-348.  The third metric divides by
\* len(source_df): with no source rows that raises ZeroDivisionError after
\* the first two metrics are drawn, and the script run ends there.
ShowResults ==
    /\ pc = "results"
    /\ IF Len(source_df[1]) = 0
       THEN /\ pc' = "crashed"
            /\ shown' = shown \cup {"metric_wells", "metric_matches"}
       ELSE /\ pc' = "done"
            /\ shown' = shown \cup
                   {"metric_wells", "metric_matches", "metric_rate",
                    IF Cardinality(matched[1]) = 0 THEN "zero_matches" ELSE "success",
                    "preview", "download", "diagnostics"}
    /\ UNCHANGED <<fnVars, source_file, template_file, extractVars, matchVars>>

\* both files uploaded and the button pressed; neither file is read yet
Init ==
    /\ pc = "start"
    /\ source_file = Nothing
    /\ template_file = Nothing
    /\ shown = {}
    /\ FnIdle /\ ExtractIdle /\ MatchIdle

Next ==
    \/ PhaseExtraction
    \/ MatchLocate
    \/ WalkColumn
    \/ MatchReturn
    \/ AfterMatch
    \/ ShowResults

Spec == Init /\ [][Next]_vars

-----------------------------------------------------------------------------
(* The master sheet as the claims see it *)

\* the well-name row and the parameter row of the sheet being walked
WellRow == template_file[1][param_row_idx]

ParamRow == template_file[1][param_row_idx + 1]

\* column j (0-based) carries a well label: its well-name cell is not blank
Labelled(j) == has_label(str(WellRow[j + 1]))

LabelKey(j) == normalize_text(str(WellRow[j + 1]))

\* the records of the source table
Records == source_df[1]

-----------------------------------------------------------------------------
(* C1 *)

\* C1: the empty key never matches.  The empty string is never in the
\* matched-keys set, and a column walked while the current well key is
\* empty leaves the new row and the matched keys as they were.
C1_EmptyKeyNeverMatches ==
    /\ [](/\ <<>> \notin matched_wells
          /\ matched # Nothing => <<>> \notin matched[1])
    /\ [][pc = "walk" /\ current_well_key' = <<>>
            => new_row' = new_row /\ matched_wells' = matched_wells]_vars

\* a WHFP column under the label "--" has been walked while the source
\* table holds a record whose key is empty and whose WHFP is present
C1_Witness ==
    /\ pc = "walk"
    /\ col_i >= 1 /\ col_i - 1 # date_col_idx
    /\ current_well_key = <<>>
    /\ WellRow[col_i] = <<"-","-">>
    /\ ParamRow[col_i] = <<"W","H","F","P">>
    /\ \E n \in 1..Len(Records) :
           Records[n]["well_key"] = <<>> /\ Records[n]["whfp"] = <<"8">>

-----------------------------------------------------------------------------
(* C2 *)

\* the labelled columns among the first k, left to right, as (label, key)
RECURSIVE LabelsBefore(_)
LabelsBefore(k) ==
    IF k = 0 THEN <<>>
    ELSE IF Labelled(k - 1)
         THEN Append(LabelsBefore(k - 1), <<str(WellRow[k]), LabelKey(k - 1)>>)
         ELSE LabelsBefore(k - 1)

\* C2: after the walk has passed columns 0..col_i-1, the cursor is the key
\* of the nearest labelled column among them (no well if there is none),
\* and every labelled column among them is in the discovered-wells list.
C2_CursorIsNearestLabel ==
    pc = "walk" =>
        /\ target_wells_debug = LabelsBefore(col_i)
        /\ IF \E j \in 0..(col_i - 1) : Labelled(j)
           THEN current_well_key =
                    LabelKey(CHOOSE j \in 0..(col_i - 1) :
                                 Labelled(j) /\ \A m \in (j + 1)..(col_i - 1) : ~Labelled(m))
           ELSE current_well_key = None

-----------------------------------------------------------------------------
(* C4 *)

ResultsShown == {"metric_wells", "metric_matches", "metric_rate", "zero_matches",
                 "success", "preview", "download", "diagnostics"}

\* C4: the pipeline stops at the first failure.  After an extraction error
\* process_and_match is never entered and nothing of the results is shown;
\* after a reconciliation error no updated grid exists and nothing of the
\* results is shown; the two stage errors are never both reported.
C4_StopsAtFirstFailure ==
    /\ error_msg # NoError =>
           /\ pc = "stopped"
           /\ template_file = Nothing /\ param_row_idx = NoneIdx
           /\ final_df = Nothing /\ matched = Nothing /\ wells_debug = Nothing
           /\ match_err = NoError
           /\ shown = {"extraction_error"}
    /\ match_err # NoError =>
           /\ pc \in {"match_ret", "stopped"}
           /\ final_df = Nothing
           /\ shown \cap ResultsShown = {}
    /\ ~({"extraction_error", "matching_error"} \subseteq shown)

\* a daily report without a header row has stopped the run
C4_Witness ==
    /\ pc = "stopped"
    /\ source_file = Some(<<TitleRow>>)
    /\ error_msg = ErrNoHeader
    /\ shown = {"extraction_error"}

-----------------------------------------------------------------------------
(* C5 *)

\* C5: a run whose extraction and reconciliation both succeed with no
\* matched key never ends in an exception.
C5_ZeroMatchesIsReported ==
    error_msg = NoError /\ match_err = NoError /\ matched = Some({})
        => pc # "crashed"

-----------------------------------------------------------------------------
(* C6 *)

\* C6: the returned grid is the master grid, rows unchanged and in order,
\* followed by exactly one row as long as the master grid is wide.
C6_OneRowAppended ==
    final_df # Nothing =>
        LET grid == final_df[1]
            master == template_file[1]
        IN  /\ Len(grid) = Len(master) + 1
            /\ \A r \in 1..Len(master) : grid[r] = master[r]
            /\ Len(grid[Len(grid)]) = Len(master[1])
            /\ grid[Len(grid)] = new_row

\* a three-column master sheet under a title row came back one row longer
C6_Witness ==
    /\ pc = "match_ret"
    /\ final_df # Nothing
    /\ Len(template_file[1]) = 4 /\ Len(template_file[1][1]) = 3
    /\ Len(final_df[1]) = 5
    /\ final_df[1][5][date_col_idx + 1] = report_date

-----------------------------------------------------------------------------
(* C7 *)

\* C7: with the parameter row at index 0 process_and_match returns the
\* structural-layout error and nothing else, and walks no row.
C7_ParamRowZeroFails ==
    param_row_idx = 0 =>
        /\ pc \in {"match_ret", "stopped"}
        /\ match_err = ErrNoWellRow
        /\ final_df = Nothing /\ matched = Nothing /\ wells_debug = Nothing
        /\ new_row = <<>> /\ target_wells_debug = <<>> /\ matched_wells = {}

\* a master sheet whose first row is the parameter row has been refused
C7_Witness ==
    /\ pc = "stopped"
    /\ param_row_idx = 0
    /\ template_file[1][1] = <<<<"D","a","t","e">>, <<"W","H","F","P">>, <<"G","a","s"," ","R","a","t","e">>>>
    /\ "matching_error" \in shown

-----------------------------------------------------------------------------
(* C10 *)

\* what C10 says column j receives under the well key k: the field's value
\* in the first record of that key, if the key is a well's, the parameter
\* cell names a field, such a record exists and the value is present
ExpectedCell(k, j) ==
    LET f == resolve_field(normalize_text(str(ParamRow[j + 1])))
        hits == {n \in 1..Len(Records) : Records[n]["well_key"] = k}
    IN  IF k = None \/ k = <<>> \/ f = NoField \/ hits = {} THEN None
        ELSE LET first == CHOOSE n \in hits : \A m \in hits : n <= m
             IN  IF Records[first][f] \in {NaN, None} THEN None
                 ELSE Records[first][f]

\* C10: walking a column other than the date column writes exactly the
\* expected cell at that column (None leaves it empty) and nothing else;
\* walking the date column writes nothing.
C10_FirstRecordFillsCell ==
    [][pc = "walk" /\ col_i' = col_i + 1 =>
          IF col_i = date_col_idx
          THEN new_row' = new_row
          ELSE new_row' = [new_row EXCEPT ![col_i + 1] =
                                ExpectedCell(current_well_key', col_i)]]_vars

\* a gas column of well ew1 took the first record's 5 although a later
\* record of the same key holds 7
C10_Witness ==
    /\ pc = "walk"
    /\ col_i >= 1 /\ col_i - 1 # date_col_idx
    /\ current_well_key = <<"e","w","1">>
    /\ new_row[col_i] = <<"5">>
    /\ \E n \in 1..Len(Records), m \in 1..Len(Records) :
           /\ n < m
           /\ Records[n]["well_key"] = <<"e","w","1">> /\ Records[n]["gas"] = <<"5">>
           /\ Records[m]["well_key"] = <<"e","w","1">> /\ Records[m]["gas"] = <<"7">>

-----------------------------------------------------------------------------
(* C9 *)

\* C9: each field is bound to the first column whose name contains one of
\* its synonyms, and no column is bound to two fields.
C9_ColumnBoundOnce ==
    pc = "ret" /\ error_msg = NoError =>
        \A k1 \in Fields, k2 \in Fields :
            k1 # k2 /\ found_cols[k1] # NoneIdx => found_cols[k1] # found_cols[k2]

-----------------------------------------------------------------------------
(* C8 *)

AsciiKeyChars == Range(SubSeq(LowerChars, 1, 26)) \cup Digits

\* the label's characters that are letters or digits, lowercased, in order
AlnumLowered(s) == SelectSeq(lower(s), isalnum)

\* C8 as stated: the key of every label is its lowercased string form with
\* every character outside [a-z0-9] deleted, so it holds only [a-z0-9].
C8_Original ==
    pc = "ret" =>
        /\ Range(ret_key) \subseteq AsciiKeyChars
        /\ ret_key = IF isna(arg_text) THEN <<>>
                     ELSE SelectSeq(lower(arg_text), LAMBDA c : c \in AsciiKeyChars)

\* C8 amended: the key of every label is its string form lowercased with
\* every character that is not a letter or digit (of any script; the
\* underscore is not one) deleted and the rest kept in order; it holds no
\* upper-case letter, punctuation, whitespace or underscore; a missing or
\* empty label gives the empty key.
C8_NormalizeKeepsAlnum ==
    pc = "ret" =>
        /\ isna(arg_text) \/ arg_text = <<>> => ret_key = <<>>
        /\ notna(arg_text) => ret_key = AlnumLowered(arg_text)
        /\ \A n \in 1..Len(ret_key) :
               isalnum(ret_key[n]) /\ lowerChar(ret_key[n]) = ret_key[n]

\* a label with punctuation, upper case and a non-ASCII letter has been keyed
C8_Witness ==
    /\ pc = "ret"
    /\ arg_text = <<"U+00C9", "-", "W">>
    /\ ret_key = <<"U+00E9", "w">>

====
